---- MODULE Spec2Model ----
(***************************************************************************)
(* EROFS mount path (fs/erofs/super.c): superblock decoding, device-table  *)
(* resolution, mount-option parsing, remount and teardown, as a state      *)
(* machine.  Names follow the C source.                                    *)
(***************************************************************************)
EXTENDS Integers, Sequences, FiniteSets, TLC

VARIABLES
    pc,        \* position of the mount's control flow
    data,      \* option string handed to erofs_fill_super, not yet parsed
    s_bdev,    \* sb->s_bdev: the super block sits on a block device
    s_root,    \* sb->s_root is non-NULL
    s_fs_info, \* sb->s_fs_info: "NULL" or "sbi"
    sbi,       \* struct erofs_sb_info
    devs,      \* struct erofs_dev_context: tree (idr), extra_devices, rwsem
    disk,      \* the backing store: block zero bytes and the device table
    scan,      \* erofs_init_devices locals: ondisk_extradevs, pos, id, err
    ledger,    \* history: per resource, acquisitions and releases
    io,        \* history: device-table slots read, in order
    rets,      \* history: return values of the calls made so far
    before,    \* history: configuration snapshot taken on entry to remount
    page,      \* a managed-cache page and the invalidatepage call on it
    vi,        \* struct erofs_inode, its RCU readers and its frees
    mod        \* the module: load state, inode pool, calls made so far

mount_vars == <<pc, data, s_bdev, s_root, s_fs_info, sbi, devs, disk, scan,
                ledger, io, rets, before>>

obj_vars == <<page, vi, mod>>

vars == <<pc, data, s_bdev, s_root, s_fs_info, sbi, devs, disk, scan,
          ledger, io, rets, before, page, vi, mod>>

----------------------------------------------------------------------------
(* Bounds of the model *)

MaxTokens == 2      \* tokens in a mount option string
MaxDevs == 2        \* extra devices declared on disk
BootBytes == 1      \* EROFS_SUPER_OFFSET, scaled down: bytes before the record
TailBytes == 1      \* bytes between the end of the record and end of block
NameLen == 3        \* sizeof(dsb->volume_name), scaled down
MaxRemounts == 1    \* remount calls per mount
MaxRemountTokens == 2   \* tokens in a remount option string
MaxParseTokens == 2     \* tokens in an option string given to the parser alone
PAGE_SIZE == 4      \* bytes in a page, scaled down
MaxHolders == 3     \* other users holding a reference on the page's cluster
MaxReaders == 2     \* RCU readers walking to the inode
MaxBlobDevs == 3    \* device= options of a blob-directory mount

----------------------------------------------------------------------------
(* errno values *)

EIO == 5
ENOMEM == 12
EINVAL == 22
EBADMSG == 74
EFSCORRUPTED == 117
E2BIG == 7
ENOENT == 2

----------------------------------------------------------------------------
(* Little-endian fields and bit sets.  A 32-bit mask is the set of its set *)
(* bit positions.                                                          *)

Pow2(n) == 2 ^ n

BitsOfByte(b) == {j \in 0..7 : (b \div Pow2(j)) % 2 = 1}

RECURSIVE ByteOfBits(_)
ByteOfBits(S) ==
    IF S = {} THEN 0
    ELSE LET j == CHOOSE x \in S : TRUE IN Pow2(j) + ByteOfBits(S \ {j})

\* bit set of a little-endian field held in the byte sequence bs
le_bits(bs) ==
    UNION {{8 * (i - 1) + j : j \in BitsOfByte(bs[i])} : i \in 1..Len(bs)}

\* little-endian bytes (n of them) of a bit set
bits_le(S, n) ==
    [i \in 1..n |-> ByteOfBits({j \in 0..7 : 8 * (i - 1) + j \in S})]

RECURSIVE le_to_cpu(_)
le_to_cpu(bs) ==
    IF bs = <<>> THEN 0 ELSE Head(bs) + 256 * le_to_cpu(Tail(bs))

RECURSIVE cpu_to_le(_, _)
cpu_to_le(v, n) ==
    IF n = 0 THEN <<>> ELSE <<v % 256>> \o cpu_to_le(v \div 256, n - 1)

SymDiff(A, B) == (A \ B) \cup (B \ A)

----------------------------------------------------------------------------
(* CRC-32C (Castagnoli), reflected, no final inversion: crc32c(crc, p, n)  *)

CRC32C_POLY == {31, 25, 23, 22, 21, 20, 18, 17, 13, 12, 11, 9, 8, 6, 5, 4, 3}

\* one bit shifted in
crc_bit(crc, bit) ==
    LET shifted == {i - 1 : i \in crc \ {0}}
    IN  IF (0 \in crc) # bit THEN SymDiff(shifted, CRC32C_POLY) ELSE shifted

RECURSIVE crc_bits(_, _, _)
crc_bits(crc, b, j) ==
    IF j = 8 THEN crc
    ELSE crc_bits(crc_bit(crc, (b \div Pow2(j)) % 2 = 1), b, j + 1)

\* the table of the byte-wise algorithm: eight zero bits shifted into n
crc32c_table == [n \in 0..255 |-> crc_bits(BitsOfByte(n), 0, 0)]

\* one byte: crc = (crc >> 8) ^ table[(crc ^ b) & 0xff]
crc_byte(crc, b) ==
    LET low == SymDiff({i \in crc : i < 8}, BitsOfByte(b))
    IN  SymDiff({i - 8 : i \in {x \in crc : x >= 8}},
                crc32c_table[ByteOfBits(low)])

\* the bytes bs[lo..hi] fed to the register, the range halved at each level
RECURSIVE crc32c_range(_, _, _, _)
crc32c_range(crc, bs, lo, hi) ==
    IF lo > hi THEN crc
    ELSE IF lo = hi THEN crc_byte(crc, bs[lo])
    ELSE LET mid == (lo + hi) \div 2
             c == crc32c_range(crc, bs, lo, mid)
         IN  IF c = {} THEN crc32c_range({}, bs, mid + 1, hi)
             ELSE crc32c_range(c, bs, mid + 1, hi)

crc32c(crc, bs) == crc32c_range(crc, bs, 1, Len(bs))

----------------------------------------------------------------------------
(* On-disk superblock record: field offsets and widths in bytes, relative  *)
(* to the record start (data + EROFS_SUPER_OFFSET).                        *)

EROFS_SUPER_MAGIC_V1 == <<226, 225, 245, 224>>   \* 0xE0F5E1E2, little-endian
LOG_BLOCK_SIZE == 12
EROFS_FEATURE_COMPAT_SB_CHKSUM == 0              \* bit 0 of feature_compat
EROFS_FEATURE_INCOMPAT_DEVICE_TABLE == 3         \* bit 3 of feature_incompat
EROFS_ALL_FEATURE_INCOMPAT == {0, 1, 2, 3}       \* the known mandatory bits
EROFS_DEVT_SLOT_SIZE == 128

OFF_magic == 0
OFF_checksum == 4
OFF_feature_compat == 8
OFF_blkszbits == 12
OFF_root_nid == 13
OFF_inos == 15
OFF_build_time == 23
OFF_build_time_nsec == 31
OFF_blocks == 35
OFF_meta_blkaddr == 39
OFF_xattr_blkaddr == 43
OFF_uuid == 47
OFF_volume_name == 63
OFF_feature_incompat == OFF_volume_name + NameLen
OFF_extra_devices == OFF_feature_incompat + 4
OFF_devt_slotoff == OFF_extra_devices + 2
SB_SIZE == OFF_devt_slotoff + 2

EROFS_SUPER_OFFSET == BootBytes
EROFS_BLKSIZ == EROFS_SUPER_OFFSET + SB_SIZE + TailBytes

\* bytes [off, off + n) of the record dsb
Field(dsb, off, n) == SubSeq(dsb, off + 1, off + n)

\* the record dsb with the n-byte field at off replaced by bs
SetField(dsb, off, bs) ==
    [i \in 1..Len(dsb) |->
        IF i > off /\ i <= off + Len(bs) THEN bs[i - off] ELSE dsb[i]]

\* the byte sequence with bit k (bit k % 8 of byte k \div 8) inverted
FlipBit(bs, k) ==
    LET i == (k \div 8) + 1
        j == k % 8
    IN  [bs EXCEPT ![i] = ByteOfBits(SymDiff(BitsOfByte(bs[i]), {j}))]

----------------------------------------------------------------------------
(* erofs_superblock_csum_verify, super.c:51-73.  sbdata is block zero.     *)

\* kmemdup(sbdata + EROFS_SUPER_OFFSET, EROFS_BLKSIZ - EROFS_SUPER_OFFSET)
csum_dup(sbdata) == SubSeq(sbdata, EROFS_SUPER_OFFSET + 1, EROFS_BLKSIZ)

\* the stored checksum is left in the bytes that are summed
csum_region_kept(dsb) == dsb

\* dsb->checksum = 0
csum_region(dsb) == SetField(dsb, OFF_checksum, <<0, 0, 0, 0>>)

erofs_superblock_csum_verify(sbdata, nomem) ==
    IF nomem THEN -ENOMEM
    ELSE LET dsb == csum_dup(sbdata)
             expected_crc == le_bits(Field(dsb, OFF_checksum, 4))
             crc == crc32c(0..31, csum_region(dsb))
         IN  IF crc # expected_crc THEN -EBADMSG ELSE 0

----------------------------------------------------------------------------
(* Resource ledger (history): every acquisition and release the code makes *)

Res(kind, id) == <<kind, id>>

Acq(l, r) ==
    IF r \in DOMAIN l THEN [l EXCEPT ![r].acq = @ + 1]
    ELSE l @@ (r :> [acq |-> 1, rel |-> 0, late |-> FALSE])

\* kfree(sbi) has already run
SbiFreed(l) == Res("sbi", 0) \in DOMAIN l /\ l[Res("sbi", 0)].rel > 0

\* a release; "late" marks one made after the erofs_sb_info was freed
Rel(l, r) ==
    IF r \in DOMAIN l
    THEN [l EXCEPT ![r].rel = @ + 1, ![r].late = @ \/ SbiFreed(l)]
    ELSE l @@ (r :> [acq |-> 0, rel |-> 1, late |-> SbiFreed(l)])

\* kfree(p), filp_close(p) ... guarded by the pointer being non-NULL
RelIf(l, cond, r) == IF cond THEN Rel(l, r) ELSE l

EmptyLedger == [r \in {} |-> [acq |-> 0, rel |-> 0, late |-> FALSE]]

----------------------------------------------------------------------------
(* struct erofs_sb_info and struct erofs_dev_context after kzalloc         *)

CONFIG_EROFS_FS_ZIP == TRUE
CONFIG_EROFS_FS_XATTR == TRUE
CONFIG_EROFS_FS_POSIX_ACL == TRUE

sbi_zeroed ==
    [mount_opt |-> {},
     cache_strategy |-> "DISABLED",
     max_sync_decompress_pages |-> 0,
     bootstrap_path |-> "NULL",
     blob_dir_path |-> "NULL",
     bootstrap |-> "NULL",
     blob_dir |-> "NULL",
     feature_compat |-> {},
     feature_incompat |-> {},
     primarydevice_blocks |-> 0,
     total_blocks |-> 0,
     meta_blkaddr |-> 0,
     xattr_blkaddr |-> 0,
     root_nid |-> 0,
     inos |-> 0,
     build_time |-> 0,
     build_time_nsec |-> 0,
     volume_name |-> <<>>,
     device_id_mask |-> 0,
     shrinker |-> FALSE,
     managed_cache |-> "NULL"]

rwsem_init == [readers |-> 0, writer |-> FALSE, misuse |-> FALSE]

devs_zeroed ==
    [allocated |-> TRUE, tree |-> <<>>, extra_devices |-> 0,
     rwsem |-> rwsem_init]

\* sbi->devs == NULL
devs_null == [devs_zeroed EXCEPT !.allocated = FALSE]

dif_zeroed ==
    [path |-> "NULL", bdev |-> "NULL", blobfile |-> "NULL",
     blocks |-> 0, mapped_blkaddr |-> 0]

\* erofs_default_options, super.c:350-362
erofs_default_options(s) ==
    LET a == IF CONFIG_EROFS_FS_ZIP
             THEN [s EXCEPT !.cache_strategy = "READAROUND",
                            !.max_sync_decompress_pages = 3]
             ELSE s
        b == IF CONFIG_EROFS_FS_XATTR
             THEN [a EXCEPT !.mount_opt = @ \cup {"XATTR_USER"}] ELSE a
    IN  IF CONFIG_EROFS_FS_POSIX_ACL
        THEN [b EXCEPT !.mount_opt = @ \cup {"POSIX_ACL"}] ELSE b

----------------------------------------------------------------------------
(* Option strings.  An option string is the sequence of its comma-         *)
(* separated tokens; a token is key, or key=val when eq holds.             *)

Tok(k) == [key |-> k, eq |-> FALSE, val |-> ""]
TokV(k, v) == [key |-> k, eq |-> TRUE, val |-> v]

\* match_table_t erofs_tokens, super.c:376-386: a pattern "key" matches the
\* token key exactly; a pattern "key=%s" matches key=val with val non-empty
erofs_tokens ==
    <<[token |-> "Opt_user_xattr", key |-> "user_xattr", arg |-> FALSE],
      [token |-> "Opt_nouser_xattr", key |-> "nouser_xattr", arg |-> FALSE],
      [token |-> "Opt_acl", key |-> "acl", arg |-> FALSE],
      [token |-> "Opt_noacl", key |-> "noacl", arg |-> FALSE],
      [token |-> "Opt_cache_strategy", key |-> "cache_strategy", arg |-> TRUE],
      [token |-> "Opt_device", key |-> "device", arg |-> TRUE],
      [token |-> "Opt_bootstrap_path", key |-> "bootstrap_path", arg |-> TRUE],
      [token |-> "Opt_blob_dir_path", key |-> "blob_dir_path", arg |-> TRUE]>>

match_one(p, pat) ==
    /\ p.key = pat.key
    /\ IF pat.arg THEN p.eq /\ p.val # "" ELSE ~p.eq

match_token(p, table) ==
    LET hits == {i \in 1..Len(table) : match_one(p, table[i])}
    IN  IF hits = {} THEN "Opt_err"
        ELSE table[CHOOSE i \in hits : \A j \in hits : i <= j].token

\* the token is the empty string (two adjacent commas)
IsEmptyTok(p) == p.key = "" /\ ~p.eq

----------------------------------------------------------------------------
(* rw_semaphore of the device table, and the record of what was done under *)
(* which lock mode                                                         *)

\* "misuse" (history) marks a release of a mode that is not held and an
\* acquisition by the thread that already excludes it
down_read(sem) ==
    [sem EXCEPT !.readers = @ + 1, !.misuse = @ \/ sem.writer]

\* the read lock is kept
up_read_forgotten(sem) == sem

up_read(sem) ==
    [sem EXCEPT !.readers = @ - 1, !.misuse = @ \/ sem.readers = 0]

down_write(sem) ==
    [sem EXCEPT !.writer = TRUE,
                !.misuse = @ \/ sem.writer \/ sem.readers > 0]

up_write(sem) ==
    [sem EXCEPT !.writer = FALSE, !.misuse = @ \/ ~sem.writer]

LockMode(sem) ==
    IF sem.writer THEN "write" ELSE IF sem.readers > 0 THEN "read" ELSE "none"

\* history: operation op ran while the semaphore was in LockMode(sem)
Note(h, op, sem) == [h EXCEPT !.held = @ \cup {<<op, LockMode(sem)>>}]

\* history: a read, an allocation or an open failed at a device-table slot
SlotFailed(h) == [h EXCEPT !.failed = TRUE]

----------------------------------------------------------------------------
(* erofs_build_cache_strategy, super.c:315-339 (CONFIG_EROFS_FS_ZIP)       *)
(* Returns err and the strategy recorded.                                  *)

\* a value that is no strategy is taken as "disabled"
erofs_build_cache_strategy_lenient(s, cs, nomem) ==
    IF ~CONFIG_EROFS_FS_ZIP THEN [err |-> 0, sbi |-> s]
    ELSE IF nomem THEN [err |-> -ENOMEM, sbi |-> s]
    ELSE IF cs = "readahead"
         THEN [err |-> 0, sbi |-> [s EXCEPT !.cache_strategy = "READAHEAD"]]
    ELSE IF cs = "readaround"
         THEN [err |-> 0, sbi |-> [s EXCEPT !.cache_strategy = "READAROUND"]]
    ELSE [err |-> 0, sbi |-> [s EXCEPT !.cache_strategy = "DISABLED"]]

erofs_build_cache_strategy(s, cs, nomem) ==
    IF ~CONFIG_EROFS_FS_ZIP THEN [err |-> 0, sbi |-> s]
    ELSE IF nomem THEN [err |-> -ENOMEM, sbi |-> s]
    ELSE IF cs = "disabled"
         THEN [err |-> 0, sbi |-> [s EXCEPT !.cache_strategy = "DISABLED"]]
    ELSE IF cs = "readahead"
         THEN [err |-> 0, sbi |-> [s EXCEPT !.cache_strategy = "READAHEAD"]]
    ELSE IF cs = "readaround"
         THEN [err |-> 0, sbi |-> [s EXCEPT !.cache_strategy = "READAROUND"]]
    ELSE [err |-> -EINVAL, sbi |-> s]

----------------------------------------------------------------------------
(* erofs_parse_options, super.c:388-483.  st carries sbi, devs, ledger, io *)
(* and err; oom names the token (counted from the head of options) at      *)
(* which an allocation fails, and which one: at = 0 means none fails.      *)

OomAt(oom, what) == oom.at = 1 /\ oom.what = what
OomNext(oom) == IF oom.at > 0 THEN [oom EXCEPT !.at = @ - 1] ELSE oom

\* case Opt_device, super.c:444-462
parse_Opt_device(st, p, oom) ==
    LET id == Len(st.devs.tree)
        l1 == Acq(st.ledger, Res("dif", id))
        l2 == Acq(l1, Res("path", id))
        dif == [dif_zeroed EXCEPT !.path = p.val]
        locked == down_write(st.devs.rwsem)
        h == Note(st.io, "idr_alloc", locked)
    IN  IF OomAt(oom, "dif") THEN [st EXCEPT !.err = -ENOMEM]
        ELSE IF OomAt(oom, "path")
             THEN [st EXCEPT !.err = -ENOMEM,
                             !.ledger = Rel(l1, Res("dif", id))]
        ELSE IF OomAt(oom, "idr")
             THEN [st EXCEPT !.err = -ENOMEM,
                             !.io = h,
                             !.devs.rwsem = up_write(locked),
                             !.ledger = Rel(Rel(l2, Res("path", id)),
                                            Res("dif", id))]
        ELSE [st EXCEPT !.err = 0,
                        !.io = Note(h, "extra_devices", up_write(locked)),
                        !.ledger = l2,
                        !.devs.rwsem = up_write(locked),
                        !.devs.tree = Append(@, dif),
                        !.devs.extra_devices = @ + 1]

\* case Opt_blob_dir_path, super.c:463-469
parse_Opt_blob_dir_path(st, p, oom) ==
    LET l1 == RelIf(st.ledger, st.sbi.blob_dir_path # "NULL",
                    Res("blob_dir_path", 0))
    IN  IF OomAt(oom, "path")
        THEN [st EXCEPT !.err = -ENOMEM, !.ledger = l1,
                        !.sbi.blob_dir_path = "NULL"]
        ELSE [st EXCEPT !.err = 0,
                        !.ledger = Acq(l1, Res("blob_dir_path", 0)),
                        !.sbi.blob_dir_path = p.val]

\* case Opt_bootstrap_path, super.c:470-476
parse_Opt_bootstrap_path(st, p, oom) ==
    LET l1 == RelIf(st.ledger, st.sbi.bootstrap_path # "NULL",
                    Res("bootstrap_path", 0))
    IN  IF OomAt(oom, "path")
        THEN [st EXCEPT !.err = -ENOMEM, !.ledger = l1,
                        !.sbi.bootstrap_path = "NULL"]
        ELSE [st EXCEPT !.err = 0,
                        !.ledger = Acq(l1, Res("bootstrap_path", 0)),
                        !.sbi.bootstrap_path = p.val]

\* the switch on one token, super.c:405-480
parse_token(st, p, oom) ==
    LET token == match_token(p, erofs_tokens)
    IN  CASE token = "Opt_user_xattr" ->
               IF CONFIG_EROFS_FS_XATTR
               THEN [st EXCEPT !.err = 0, !.sbi.mount_opt = @ \cup {"XATTR_USER"}]
               ELSE [st EXCEPT !.err = 0]
          [] token = "Opt_nouser_xattr" ->
               IF CONFIG_EROFS_FS_XATTR
               THEN [st EXCEPT !.err = 0, !.sbi.mount_opt = @ \ {"XATTR_USER"}]
               ELSE [st EXCEPT !.err = 0]
          [] token = "Opt_acl" ->
               IF CONFIG_EROFS_FS_POSIX_ACL
               THEN [st EXCEPT !.err = 0, !.sbi.mount_opt = @ \cup {"POSIX_ACL"}]
               ELSE [st EXCEPT !.err = 0]
          [] token = "Opt_noacl" ->
               IF CONFIG_EROFS_FS_POSIX_ACL
               THEN [st EXCEPT !.err = 0, !.sbi.mount_opt = @ \ {"POSIX_ACL"}]
               ELSE [st EXCEPT !.err = 0]
          [] token = "Opt_cache_strategy" ->
               LET r == erofs_build_cache_strategy(st.sbi, p.val,
                                                   OomAt(oom, "path"))
               IN  [st EXCEPT !.err = r.err, !.sbi = r.sbi]
          [] token = "Opt_device" -> parse_Opt_device(st, p, oom)
          [] token = "Opt_blob_dir_path" -> parse_Opt_blob_dir_path(st, p, oom)
          [] token = "Opt_bootstrap_path" -> parse_Opt_bootstrap_path(st, p, oom)
          [] OTHER -> [st EXCEPT !.err = -EINVAL]

RECURSIVE erofs_parse_options(_, _, _)
erofs_parse_options(st, options, oom) ==
    IF options = <<>> THEN [st EXCEPT !.err = 0]
    ELSE LET p == Head(options)
         IN  IF IsEmptyTok(p)
             THEN erofs_parse_options(st, Tail(options), OomNext(oom))
             ELSE LET r == parse_token(st, p, oom)
                  IN  IF r.err # 0 THEN r
                      ELSE erofs_parse_options(r, Tail(options), OomNext(oom))

\* erofs_mount_is_rafs_v6, super.c:677-709
erofs_mount_is_rafs_v6(options, nomem) ==
    IF options = <<>> THEN FALSE
    ELSE IF nomem THEN FALSE
    ELSE \E i \in 1..Len(options) :
            /\ ~IsEmptyTok(options[i])
            /\ match_token(options[i], erofs_tokens)
                   \in {"Opt_bootstrap_path", "Opt_blob_dir_path"}

----------------------------------------------------------------------------
(* erofs_read_superblock, super.c:242-312, up to the call of               *)
(* erofs_init_devices                                                      *)

erofs_sb_has_sb_chksum(s) == EROFS_FEATURE_COMPAT_SB_CHKSUM \in s.feature_compat

erofs_sb_has_device_table(s) ==
    EROFS_FEATURE_INCOMPAT_DEVICE_TABLE \in s.feature_incompat

\* a gate that lets every feature mask through
check_layout_compatibility_any(feature) == TRUE

\* check_layout_compatibility, super.c:113-128: the verdict on the mask
check_layout_compatibility(feature) ==
    (feature \ EROFS_ALL_FEATURE_INCOMPAT) = {}

\* strscpy(dest, src, count): count - 1 bytes at most, always terminated;
\* -E2BIG when src has no NUL in its first count bytes
strscpy(src, count) ==
    LET nul == {i \in 1..count : src[i] = 0}
    IN  IF nul = {}
        THEN [ret |-> -E2BIG, dest |-> SubSeq(src, 1, count - 1)]
        ELSE LET n == CHOOSE i \in nul : \A j \in nul : i <= j
             IN  [ret |-> n - 1, dest |-> SubSeq(src, 1, n - 1)]

\* the error returned for a superblock whose magic does not match, 260-264
magic_mismatch_ret == -EINVAL

\* the error returned for an unsupported block size or feature, 273-283
unsupported_ret == -EINVAL

\* the result of strscpy is not looked at
volume_name_bad_never(r) == FALSE

\* a volume name without terminator, super.c:299-305
volume_name_bad(r) == r < 0

\* the name error reported with the value of the checks before it
volume_name_ret_einval == -EINVAL

volume_name_ret == -EFSCORRUPTED

\* whether the checksum is verified, super.c:266-267
csum_checked(s) == erofs_sb_has_sb_chksum(s)

\* scalar fields copied from the record, super.c:285-297
copy_fields(s, dsb) ==
    [s EXCEPT
        !.primarydevice_blocks = le_to_cpu(Field(dsb, OFF_blocks, 4)),
        !.meta_blkaddr = le_to_cpu(Field(dsb, OFF_meta_blkaddr, 4)),
        !.xattr_blkaddr = IF CONFIG_EROFS_FS_XATTR
                          THEN le_to_cpu(Field(dsb, OFF_xattr_blkaddr, 4))
                          ELSE @,
        !.root_nid = le_to_cpu(Field(dsb, OFF_root_nid, 2)),
        !.inos = le_to_cpu(Field(dsb, OFF_inos, 8)),
        !.build_time = le_to_cpu(Field(dsb, OFF_build_time, 8)),
        !.build_time_nsec = le_to_cpu(Field(dsb, OFF_build_time_nsec, 4))]

\* Result: ret, the updated sbi, and whether erofs_init_devices is called
\* (ret is then still to be assigned).
read_superblock_decode(s, blk, nomem) ==
    LET dsb == SubSeq(blk, EROFS_SUPER_OFFSET + 1, EROFS_BLKSIZ)
        s1 == [s EXCEPT !.feature_compat =
                            le_bits(Field(dsb, OFF_feature_compat, 4))]
        csum == IF csum_checked(s1)
                THEN erofs_superblock_csum_verify(blk, nomem) ELSE 0
        feature == le_bits(Field(dsb, OFF_feature_incompat, 4))
        s2 == [s1 EXCEPT !.feature_incompat = feature]
        s3 == copy_fields(s2, dsb)
        name == strscpy(Field(dsb, OFF_volume_name, NameLen), NameLen)
        s4 == [s3 EXCEPT !.volume_name = name.dest]
    IN  IF Field(dsb, OFF_magic, 4) # EROFS_SUPER_MAGIC_V1
        THEN [ret |-> magic_mismatch_ret, sbi |-> s, call_devices |-> FALSE]
        ELSE IF csum # 0
        THEN [ret |-> csum, sbi |-> s1, call_devices |-> FALSE]
        ELSE IF Field(dsb, OFF_blkszbits, 1)[1] # LOG_BLOCK_SIZE
        THEN [ret |-> unsupported_ret, sbi |-> s1, call_devices |-> FALSE]
        ELSE IF ~check_layout_compatibility(feature)
        THEN [ret |-> unsupported_ret, sbi |-> s2, call_devices |-> FALSE]
        ELSE IF volume_name_bad(name.ret)
        THEN [ret |-> volume_name_ret, sbi |-> s4, call_devices |-> FALSE]
        ELSE [ret |-> name.ret, sbi |-> s4, call_devices |-> TRUE]

----------------------------------------------------------------------------
(* The backing store: images of block zero, built field by field, and the  *)
(* device table.  f records how the image was built.                       *)

NameBytes(kind) ==
    [i \in 1..NameLen |->
        CASE kind = "mid" -> IF i = 2 THEN 0 ELSE 96 + i
          [] kind = "last" -> IF i = NameLen THEN 0 ELSE 96 + i
          [] kind = "empty" -> 0
          [] OTHER -> 96 + i]

RawRecord(f) ==
    LET z == [i \in 1..(SB_SIZE + TailBytes) |-> IF i > SB_SIZE THEN 165 ELSE 0]
        a == SetField(z, OFF_magic,
                      IF f.magic_ok THEN EROFS_SUPER_MAGIC_V1
                      ELSE <<226, 225, 245, 225>>)
        b == SetField(a, OFF_feature_compat,
                      bits_le(IF f.csum = "none" THEN {1}
                              ELSE {EROFS_FEATURE_COMPAT_SB_CHKSUM, 1}, 4))
        c == SetField(b, OFF_blkszbits, <<f.blkszbits>>)
        d == SetField(c, OFF_root_nid, cpu_to_le(36, 2))
        e == SetField(d, OFF_inos, cpu_to_le(1000, 8))
        g == SetField(e, OFF_blocks, cpu_to_le(f.blocks, 4))
        h == SetField(g, OFF_meta_blkaddr, cpu_to_le(1, 4))
        i == SetField(h, OFF_volume_name, NameBytes(f.name))
        j == SetField(i, OFF_feature_incompat, bits_le(f.incompat, 4))
        k == SetField(j, OFF_extra_devices, cpu_to_le(f.extra_devices, 2))
    IN  SetField(k, OFF_devt_slotoff, cpu_to_le(f.devt_slotoff, 2))

MkBlock(f) ==
    LET boot == [i \in 1..EROFS_SUPER_OFFSET |-> 85]
        raw == RawRecord(f)
        crc == crc32c(0..31, raw)
        stored == IF f.csum = "bad" THEN SymDiff(crc, {7}) ELSE crc
    IN  boot \o (IF f.csum = "none" THEN raw
                 ELSE SetField(raw, OFF_checksum, bits_le(stored, 4)))

BaseFields(n) ==
    [magic_ok |-> TRUE, csum |-> "none", blkszbits |-> LOG_BLOCK_SIZE,
     incompat |-> IF n > 0 THEN {EROFS_FEATURE_INCOMPAT_DEVICE_TABLE} ELSE {},
     name |-> "mid", blocks |-> 40, extra_devices |-> n, devt_slotoff |-> 1]

ImageFields ==
    {BaseFields(n) : n \in 0..MaxDevs}
    \cup {[BaseFields(1) EXCEPT !.csum = c] : c \in {"good", "bad"}}
    \cup {[BaseFields(1) EXCEPT !.magic_ok = FALSE],
          [BaseFields(1) EXCEPT !.blkszbits = 9],
          [BaseFields(1) EXCEPT !.incompat = @ \cup {5}],
          [BaseFields(0) EXCEPT !.incompat = {30}],
          [BaseFields(1) EXCEPT !.incompat = {}],
          [BaseFields(0) EXCEPT !.incompat =
                                    {EROFS_FEATURE_INCOMPAT_DEVICE_TABLE}],
          [BaseFields(1) EXCEPT !.name = "full"],
          [BaseFields(0) EXCEPT !.name = "last"],
          [BaseFields(MaxDevs) EXCEPT !.devt_slotoff = 2]}

\* flip: the bit of the checksummed region inverted after the image was
\* built, or -1
Images == {[blk |-> MkBlock(f), f |-> f, flip |-> -1] : f \in ImageFields}

NoDisk == [blk |-> <<>>, f |-> BaseFields(0), flip |-> -1]

\* images that carry a checksum and decode, and each with one bit of the
\* region [EROFS_SUPER_OFFSET, EROFS_BLKSIZ) inverted
RegionBits == 8 * (EROFS_BLKSIZ - EROFS_SUPER_OFFSET)

FlipBases ==
    {[blk |-> MkBlock(f), f |-> f, flip |-> -1] :
        f \in {[BaseFields(1) EXCEPT !.csum = "good"],
               [BaseFields(0) EXCEPT !.csum = "good", !.name = "last"]}}

FlipImages ==
    FlipBases \cup
    {[b EXCEPT !.blk = FlipBit(b.blk, 8 * EROFS_SUPER_OFFSET + k),
               !.flip = k] : b \in FlipBases, k \in 0..(RegionBits - 1)}

\* the device-table slot at byte position pos of the metadata
DeviceSlot(pos) ==
    LET a == pos \div EROFS_DEVT_SLOT_SIZE
    IN  [blocks |-> cpu_to_le(8 + a, 4),
         mapped_blkaddr |-> cpu_to_le(64 * (a + 1), 4),
         userdata |-> a]

----------------------------------------------------------------------------
(* Inputs *)

MountTokens ==
    {Tok("noacl"), TokV("cache_strategy", "readahead"),
     TokV("device", "/dev/a"), TokV("device", "/dev/b"),
     TokV("bootstrap_path", "/img/boot"), TokV("blob_dir_path", "/img/blobs"),
     Tok("bogus")}

RemountTokens ==
    {Tok("nouser_xattr"), TokV("cache_strategy", "disabled"),
     TokV("device", "/dev/c"), TokV("blob_dir_path", "/img/other"),
     TokV("bootstrap_path", "/img/boot2"), TokV("cache_strategy", "bogus")}

\* tokens for the parser alone: empty, unknown, without value, every
\* cache strategy
ParseTokens ==
    {Tok(""), Tok("bogus"), Tok("device"), Tok("bootstrap_path"),
     TokV("cache_strategy", ""), TokV("cache_strategy", "bogus"),
     TokV("cache_strategy", "disabled"), TokV("cache_strategy", "readahead"),
     TokV("cache_strategy", "readaround"),
     Tok("acl"), Tok("nouser_xattr"),
     TokV("device", "/dev/a"), TokV("blob_dir_path", "/img/blobs")}

\* the option strings of the mounts that are later remounted
RemountMounts ==
    {<<>>,
     <<TokV("device", "/dev/a")>>,
     <<TokV("bootstrap_path", "/img/boot"), TokV("blob_dir_path", "/img/blobs")>>,
     <<Tok("noacl"), TokV("cache_strategy", "readahead")>>}

\* blob-directory mounts: bootstrap file, blob directory and k device= options
BlobMounts ==
    {<<TokV("bootstrap_path", "/img/boot"), TokV("blob_dir_path", "/img/blobs")>>
         \o [i \in 1..k |-> TokV("device", "/dev/a")] : k \in 0..MaxBlobDevs}

OptionStrings(T, n) == UNION {[1..k -> T] : k \in 0..n}

NoOom == [at |-> 0, what |-> "none"]

OomChoices(options) ==
    {NoOom} \cup [at : 1..Len(options), what : {"dif", "path", "idr"}]

RemountOom(options) ==
    {NoOom} \cup [at : 1..Len(options), what : {"path"}]

----------------------------------------------------------------------------
(* State *)

\* the mount configuration: what the option parser writes
Config(s, d) ==
    [mount_opt |-> s.mount_opt,
     cache_strategy |-> s.cache_strategy,
     bootstrap_path |-> s.bootstrap_path,
     blob_dir_path |-> s.blob_dir_path,
     paths |-> [i \in 1..Len(d.tree) |-> d.tree[i].path],
     extra_devices |-> d.extra_devices]

SetRet(r, k, v) == (k :> v) @@ r

----------------------------------------------------------------------------
(* The managed cache's page operations, super.c:485-521.  One page of the  *)
(* managed cache, the compressed cluster it may be attached to, and one    *)
(* erofs_managed_cache_invalidatepage call, split where the code yields.   *)

call_idle == [pc |-> "idle", offset |-> 0, length |-> 0, entry |-> FALSE,
              tried |-> FALSE, ret |-> 1, owed |-> FALSE, busied |-> FALSE]

page_init == [Private |-> FALSE, Locked |-> FALSE, refcount |-> 1,
              call |-> call_idle]

\* erofs_try_to_free_cached_page (zdata.c): the cluster is frozen only when
\* the cache holds its sole reference; the page is then detached
erofs_try_to_free_cached_page(pg) ==
    IF pg.refcount = 1
    THEN [ret |-> 1, page |-> [pg EXCEPT !.Private = FALSE]]
    ELSE [ret |-> 0, page |-> pg]

\* super.c:488-500; 0 means busy
erofs_managed_cache_releasepage(pg) ==
    IF pg.Private THEN erofs_try_to_free_cached_page(pg)
    ELSE [ret |-> 1, page |-> pg]

\* the test misses the offset
invalidate_to_page_end(offset, stop) == stop = PAGE_SIZE

\* super.c:512
invalidate_whole_page(offset, stop) == offset = 0 /\ stop = PAGE_SIZE

\* the cache attaches the page to a cluster; it takes the page lock to do so
page_attach ==
    /\ ~page.Locked
    /\ ~page.Private
    /\ page' = [page EXCEPT !.Private = TRUE]
    /\ UNCHANGED <<mount_vars, vi, mod>>

\* another user of the cluster takes a reference
workgroup_get ==
    /\ page.refcount <= MaxHolders
    /\ page' = [page EXCEPT !.refcount = @ + 1]
    /\ UNCHANGED <<mount_vars, vi, mod>>

\* another user of the cluster drops its reference
workgroup_put ==
    /\ page.refcount > 1
    /\ page' = [page EXCEPT !.refcount = @ - 1]
    /\ UNCHANGED <<mount_vars, vi, mod>>

\* super.c:502-512: entry of erofs_managed_cache_invalidatepage on a page its
\* caller has locked, up to the test of the range
erofs_managed_cache_invalidatepage(offset, length) ==
    /\ page.call.pc = "idle"
    /\ ~page.Locked
    /\ LET stop == length + offset
       IN  /\ stop <= PAGE_SIZE
           /\ page' = [page EXCEPT
                  !.Locked = TRUE,
                  !.call = [call_idle EXCEPT
                      !.pc = IF invalidate_whole_page(offset, stop)
                             THEN "release" ELSE "returned",
                      !.offset = offset, !.length = length,
                      !.entry = page.Private]]
    /\ UNCHANGED <<mount_vars, vi, mod>>

\* super.c:513: one evaluation of the loop condition
invalidatepage_release ==
    /\ page.call.pc = "release"
    /\ LET r == erofs_managed_cache_releasepage(page)
       IN  page' = [r.page EXCEPT
               !.call = [page.call EXCEPT
                   !.pc = IF r.ret # 0 THEN "returned" ELSE "resched",
                   !.tried = TRUE, !.ret = r.ret,
                   !.owed = (r.ret = 0),
                   !.busied = @ \/ r.ret = 0]]
    /\ UNCHANGED <<mount_vars, vi, mod>>

\* super.c:514
cond_resched ==
    /\ page.call.pc = "resched"
    /\ page' = [page EXCEPT !.call.pc = "release", !.call.owed = FALSE]
    /\ UNCHANGED <<mount_vars, vi, mod>>

\* super.c:516: the call returns and its caller unlocks the page
invalidatepage_return ==
    /\ page.call.pc = "returned"
    /\ page' = [page EXCEPT !.Locked = FALSE, !.call = call_idle]
    /\ UNCHANGED <<mount_vars, vi, mod>>

NextPage ==
    \/ page_attach
    \/ workgroup_get
    \/ workgroup_put
    \/ \E offset \in 0..PAGE_SIZE, length \in 0..PAGE_SIZE :
          erofs_managed_cache_invalidatepage(offset, length)
    \/ invalidatepage_release
    \/ cond_resched
    \/ invalidatepage_return

----------------------------------------------------------------------------
(* Inode allocation and RCU-deferred destruction, super.c:82-111.  Readers *)
(* are RCU path walkers: "out" of a read-side section, "in" one, or in one *)
(* holding a reference ("ref") to the inode.                               *)

Readers == 1..MaxReaders

Payload == {"i_link", "xattr_shared_xattrs", "vi"}

vi_init == [state |-> "none", fast_symlink |-> FALSE,
            i_link |-> "NULL", xattr_shared_xattrs |-> "NULL", vi |-> "NULL",
            rd |-> [r \in Readers |-> "out"], waiting |-> {},
            frees |-> [o \in Payload |-> 0], raced |-> FALSE]

\* kfree and kmem_cache_free: NULL is ignored
kfree(v, o) ==
    IF v[o] = "NULL" THEN v
    ELSE [v EXCEPT ![o] = "freed", !.frees[o] = @ + 1]

\* super.c:95-106
i_callback(v) ==
    LET v1 == IF v.fast_symlink THEN kfree(v, "i_link") ELSE v
        v2 == kfree(v1, "xattr_shared_xattrs")
    IN  [kfree(v2, "vi") EXCEPT !.state = "freed"]

\* the callback runs at once
call_now(v) == i_callback(v)

\* super.c:110, call_rcu: the callback is queued behind every read-side
\* section that is open now
call_rcu(v) ==
    [v EXCEPT !.state = "queued",
              !.waiting = {r \in Readers : v.rd[r] # "out"}]

\* super.c:82-93, and the payload the inode is given once it is read in
\* (a failed allocation returns NULL and leaves no inode)
erofs_alloc_inode(fast, xattrs) ==
    /\ vi.state = "none"
    /\ vi' = [vi EXCEPT !.state = "live", !.vi = "alloc",
                        !.fast_symlink = fast,
                        !.i_link = IF fast THEN "alloc" ELSE "NULL",
                        !.xattr_shared_xattrs =
                            IF xattrs THEN "alloc" ELSE "NULL"]
    /\ UNCHANGED <<mount_vars, page, mod>>

rcu_read_lock(r) ==
    /\ vi.rd[r] = "out"
    /\ vi' = [vi EXCEPT !.rd[r] = "in"]
    /\ UNCHANGED <<mount_vars, page, mod>>

\* a path walk reaches the inode, which is possible until it is destroyed
rcu_walk(r) ==
    /\ vi.rd[r] = "in"
    /\ vi.state = "live"
    /\ vi' = [vi EXCEPT !.rd[r] = "ref"]
    /\ UNCHANGED <<mount_vars, page, mod>>

rcu_read_unlock(r) ==
    /\ vi.rd[r] # "out"
    /\ vi' = [vi EXCEPT !.rd[r] = "out", !.waiting = @ \ {r}]
    /\ UNCHANGED <<mount_vars, page, mod>>

\* super.c:108-111
erofs_destroy_inode ==
    /\ vi.state = "live"
    /\ vi' = [call_rcu(vi) EXCEPT
                 !.raced = \E r \in Readers : vi.rd[r] = "ref"]
    /\ UNCHANGED <<mount_vars, page, mod>>

\* the grace period has elapsed: the queued callback is invoked
rcu_invoke_callback ==
    /\ vi.state = "queued"
    /\ vi.waiting = {}
    /\ vi' = i_callback(vi)
    /\ UNCHANGED <<mount_vars, page, mod>>

NextInode ==
    \/ \E fast \in BOOLEAN, xattrs \in BOOLEAN :
          erofs_alloc_inode(fast, xattrs)
    \/ \E r \in Readers : rcu_read_lock(r)
    \/ \E r \in Readers : rcu_walk(r)
    \/ \E r \in Readers : rcu_read_unlock(r)
    \/ erofs_destroy_inode
    \/ rcu_invoke_callback

----------------------------------------------------------------------------
(* Module load and unload, super.c:772-820.  The inode of the section      *)
(* above stands for the filesystem objects allocated from the pool.        *)

mod_init == [state |-> "unloaded", pool |-> "none", log |-> <<>>,
             ret |-> 0, failed |-> "none", callee |-> 0]

\* erofs_module_init, super.c:772-809: the calls made, in order, and the
\* value returned, when step "fail" fails with err
module_init_run(fail, err) ==
    LET icache_err == <<>>
        shrinker_err == <<"kmem_cache_destroy">> \o icache_err
        zip_err == <<"erofs_exit_shrinker">> \o shrinker_err
        fs_err == <<"z_erofs_exit_zip_subsystem">> \o zip_err
        c1 == <<"kmem_cache_create">>
        c2 == c1 \o <<"erofs_init_shrinker">>
        c3 == c2 \o <<"z_erofs_init_zip_subsystem">>
        c4 == c3 \o <<"register_filesystem">>
    IN  IF fail = "icache" THEN [err |-> -ENOMEM, log |-> c1 \o icache_err]
        ELSE IF fail = "shrinker" THEN [err |-> err, log |-> c2 \o shrinker_err]
        ELSE IF fail = "zip" THEN [err |-> err, log |-> c3 \o zip_err]
        ELSE IF fail = "fs" THEN [err |-> err, log |-> c4 \o fs_err]
        ELSE [err |-> 0, log |-> c4]

erofs_module_init(fail, err) ==
    /\ mod.state = "unloaded"
    /\ LET r == module_init_run(fail, err)
       IN  mod' = [state |-> IF r.err = 0 THEN "live" ELSE "failed",
                   pool |-> IF r.err = 0 THEN "live"
                            ELSE IF fail = "icache" THEN "none"
                            ELSE "destroyed",
                   log |-> r.log, ret |-> r.err, failed |-> fail,
                   callee |-> err]
    /\ UNCHANGED <<mount_vars, page, vi>>

\* erofs_module_exit, super.c:811-818, up to the wait in rcu_barrier; the
\* module is unloaded only when no filesystem is mounted
erofs_module_exit ==
    /\ mod.state = "live"
    /\ vi.state # "live"
    /\ mod' = [mod EXCEPT
                  !.state = "barrier",
                  !.log = @ \o <<"unregister_filesystem",
                                 "z_erofs_exit_zip_subsystem",
                                 "erofs_exit_shrinker", "rcu_barrier">>]
    /\ UNCHANGED <<mount_vars, page, vi>>

\* the wait is skipped
rcu_barrier_skipped(v) == TRUE

\* super.c:818, rcu_barrier returns once no queued callback is left
rcu_barrier_returns(v) == v.state # "queued"

\* super.c:818-819: rcu_barrier returns and the pool is destroyed
module_exit_destroy ==
    /\ mod.state = "barrier"
    /\ rcu_barrier_returns(vi)
    /\ mod' = [mod EXCEPT !.state = "gone", !.pool = "destroyed",
                          !.log = @ \o <<"kmem_cache_destroy">>]
    /\ UNCHANGED <<mount_vars, page, vi>>

NextModule ==
    \/ \E fail \in {"none", "icache", "shrinker", "zip", "fs"},
          err \in {-ENOMEM, -EINVAL} : erofs_module_init(fail, err)
    \/ mod.state = "live" /\ \E fast \in BOOLEAN, xattrs \in BOOLEAN :
          erofs_alloc_inode(fast, xattrs)
    \/ \E r \in Readers : rcu_read_lock(r)
    \/ \E r \in Readers : rcu_walk(r)
    \/ \E r \in Readers : rcu_read_unlock(r)
    \/ mod.state = "live" /\ erofs_destroy_inode
    \/ rcu_invoke_callback
    \/ erofs_module_exit
    \/ module_exit_destroy

scan_init == [ondisk_extradevs |-> 0, pos |-> 0, id |-> 0, err |-> 0]

Init ==
    /\ pc = "start"
    /\ data = <<>>
    /\ s_bdev = FALSE
    /\ s_root = FALSE
    /\ s_fs_info = "NULL"
    /\ sbi = sbi_zeroed
    /\ devs = devs_null
    /\ disk = NoDisk
    /\ scan = scan_init
    /\ ledger = EmptyLedger
    /\ io = [slots |-> <<>>, held |-> {}, failed |-> FALSE]
    /\ rets = <<>>
    /\ before = [cfg |-> Config(sbi_zeroed, devs_null), n |-> 0]
    /\ page = page_init
    /\ vi = vi_init
    /\ mod = mod_init

\* erofs_fill_super returns err: the VFS then calls erofs_kill_sb
FillSuperFails(err) ==
    /\ pc' = "failed"
    /\ rets' = SetRet(rets, "fill_super", err)

----------------------------------------------------------------------------
(* erofs_mount, super.c:711-717: the pre-scan selects mount_nodev or       *)
(* mount_bdev, which opens the primary block device                        *)

erofs_mount(options, nomem) ==
    /\ pc = "start"
    /\ LET rafs == erofs_mount_is_rafs_v6(options, nomem)
       IN  /\ s_bdev' = ~rafs
           /\ ledger' = IF rafs THEN ledger ELSE Acq(ledger, Res("s_bdev", 0))
           /\ rets' = SetRet(rets, "is_rafs_v6", IF rafs THEN 1 ELSE 0)
    /\ data' = options
    /\ pc' = "fill_super"
    /\ UNCHANGED obj_vars
    /\ UNCHANGED <<s_root, s_fs_info, sbi, devs, disk, scan, io, before>>

(* erofs_fill_super, super.c:570-605: block size, allocation, defaults     *)
fill_super_alloc(fail) ==
    /\ pc = "fill_super"
    /\ fail = "blocksize" => s_bdev
    /\ CASE fail = "blocksize" ->
              /\ FillSuperFails(-EINVAL)
              /\ UNCHANGED <<s_fs_info, sbi, devs, ledger>>
         [] fail = "sbi" ->
              /\ FillSuperFails(-ENOMEM)
              /\ UNCHANGED <<s_fs_info, sbi, devs, ledger>>
         [] fail = "devs" ->
              /\ FillSuperFails(-ENOMEM)
              /\ s_fs_info' = "sbi"
              /\ sbi' = sbi_zeroed
              /\ ledger' = Acq(ledger, Res("sbi", 0))
              /\ UNCHANGED devs
         [] OTHER ->
              /\ pc' = "parse"
              /\ s_fs_info' = "sbi"
              /\ sbi' = erofs_default_options(sbi_zeroed)
              /\ devs' = devs_zeroed
              /\ ledger' = Acq(Acq(ledger, Res("sbi", 0)), Res("devs", 0))
              /\ UNCHANGED rets
    /\ UNCHANGED obj_vars
    /\ UNCHANGED <<data, s_bdev, s_root, disk, scan, io, before>>

(* erofs_fill_super, super.c:607-609: err = erofs_parse_options(sb, data)  *)
fill_super_parse(oom) ==
    /\ pc = "parse"
    /\ LET r == erofs_parse_options(
                    [sbi |-> sbi, devs |-> devs, ledger |-> ledger,
                     io |-> io, err |-> 0], data, oom)
       IN  /\ sbi' = r.sbi
           /\ devs' = r.devs
           /\ ledger' = r.ledger
           /\ io' = r.io
           /\ IF r.err # 0
              THEN /\ pc' = "failed"
                   /\ rets' = SetRet(SetRet(rets, "parse", r.err),
                                     "fill_super", r.err)
              ELSE /\ pc' = "rafs"
                   /\ rets' = SetRet(rets, "parse", 0)
    /\ data' = <<>>
    /\ UNCHANGED obj_vars
    /\ UNCHANGED <<s_bdev, s_root, s_fs_info, disk, scan, before>>

(* rafs_v6_fill_super, super.c:544-568 *)
rafs_v6_fill_super(fail) ==
    /\ pc = "rafs"
    /\ fail = "bootstrap" => sbi.bootstrap_path # "NULL"
    /\ fail = "blob_dir" => sbi.blob_dir_path # "NULL"
    /\ LET opened == sbi.bootstrap_path # "NULL" /\ fail # "bootstrap"
           s1 == IF opened THEN [sbi EXCEPT !.bootstrap = "file"] ELSE sbi
           l1 == IF opened THEN Acq(ledger, Res("bootstrap", 0)) ELSE ledger
       IN  CASE fail = "bootstrap" ->
                  /\ FillSuperFails(-ENOENT)
                  /\ UNCHANGED <<sbi, ledger>>
             [] fail = "blob_dir" ->
                  /\ FillSuperFails(-ENOENT)
                  /\ sbi' = [s1 EXCEPT !.blob_dir_path = "NULL"]
                  /\ ledger' = Rel(l1, Res("blob_dir_path", 0))
             [] OTHER ->
                  /\ pc' = "read_sb"
                  /\ sbi' = IF sbi.blob_dir_path # "NULL"
                            THEN [s1 EXCEPT !.blob_dir = "path"] ELSE s1
                  /\ ledger' = IF sbi.blob_dir_path # "NULL"
                               THEN Acq(l1, Res("blob_dir", 0)) ELSE l1
                  /\ UNCHANGED rets
    /\ UNCHANGED obj_vars
    /\ UNCHANGED <<data, s_bdev, s_root, s_fs_info, devs, disk, scan, io,
                   before>>

----------------------------------------------------------------------------
(* erofs_read_superblock, super.c:242-312 *)

erofs_read_superblock(img, nomem, readfail) ==
    /\ pc = "read_sb"
    /\ nomem => (~readfail /\ img.f.csum # "none")
    /\ IF readfail
       THEN /\ pc' = "failed"
            /\ rets' = SetRet(SetRet(rets, "read_sb", -EIO), "fill_super", -EIO)
            /\ UNCHANGED <<sbi, disk>>
       ELSE LET r == read_superblock_decode(sbi, img.blk, nomem)
            IN  /\ disk' = img
                /\ sbi' = r.sbi
                /\ IF r.call_devices
                   THEN pc' = "init_devices" /\ UNCHANGED rets
                   ELSE /\ pc' = "failed"
                        /\ rets' = SetRet(SetRet(rets, "read_sb", r.ret),
                                          "fill_super", r.ret)
    /\ UNCHANGED obj_vars
    /\ UNCHANGED <<data, s_bdev, s_root, s_fs_info, devs, scan, ledger, io,
                   before>>

----------------------------------------------------------------------------
(* erofs_init_devices, super.c:130-240 *)

RECURSIVE roundup_pow_of_two_from(_, _)
roundup_pow_of_two_from(n, p) ==
    IF p >= n THEN p ELSE roundup_pow_of_two_from(n, 2 * p)

roundup_pow_of_two(n) == roundup_pow_of_two_from(n, 1)

\* the count itself is rounded up
device_id_mask_short(ondisk) == roundup_pow_of_two(ondisk) - 1

\* super.c:157
device_id_mask_of(ondisk) == roundup_pow_of_two(ondisk + 1) - 1

\* the largest le16 value, super.c:146
U16_MAX == Pow2(16) - 1

\* the record handed to erofs_init_devices
DsbOf(d) == SubSeq(d.blk, EROFS_SUPER_OFFSET + 1, EROFS_BLKSIZ)

\* the count is taken from the record whether or not the feature is set
ondisk_extradevs_of_any(s, dsb) ==
    le_to_cpu(Field(dsb, OFF_extra_devices, 2))

\* super.c:143-146
ondisk_extradevs_of(s, dsb) ==
    IF ~erofs_sb_has_device_table(s) THEN 0
    ELSE le_to_cpu(Field(dsb, OFF_extra_devices, 2))

\* the counts are not compared
extradevs_mismatch_never(ondisk, s, d) == FALSE

\* super.c:148-149: the counts differ and no blob directory is configured
extradevs_mismatch(ondisk, s, d) ==
    ondisk # d.extra_devices /\ s.blob_dir_path = "NULL"

\* super.c:158
devt_start(dsb) ==
    le_to_cpu(Field(dsb, OFF_devt_slotoff, 2)) * EROFS_DEVT_SLOT_SIZE

\* erofs_init_devices returns err to erofs_read_superblock, which returns
\* it to erofs_fill_super (super.c:308-311, 615-617)
InitDevicesReturns(err) ==
    /\ pc' = IF err # 0 THEN "failed" ELSE "root"
    /\ rets' = LET r == SetRet(SetRet(rets, "init_devices", err),
                               "read_sb", err)
               IN  IF err # 0 THEN SetRet(r, "fill_super", err) ELSE r

\* the value returned through err_out after the second loop, 235-239
loops_done_err(err) == 0

\* the first loop visits the entries of the idr in id order
Loop1Next(id, d) == IF id < Len(d.tree) THEN "devs_loop1" ELSE "devs_loop2"

init_devices_enter ==
    /\ pc = "init_devices"
    /\ LET dsb == DsbOf(disk)
           ondisk == ondisk_extradevs_of(sbi, dsb)
           s1 == [sbi EXCEPT !.total_blocks = sbi.primarydevice_blocks]
       IN  IF extradevs_mismatch(ondisk, sbi, devs)
           THEN /\ InitDevicesReturns(-EINVAL)
                /\ sbi' = s1
                /\ scan' = [scan EXCEPT !.ondisk_extradevs = ondisk]
                /\ UNCHANGED devs
           ELSE IF ondisk = 0
           THEN /\ InitDevicesReturns(0)
                /\ sbi' = s1
                /\ scan' = [scan EXCEPT !.ondisk_extradevs = ondisk]
                /\ UNCHANGED devs
           ELSE /\ sbi' = [s1 EXCEPT !.device_id_mask =
                                        device_id_mask_of(ondisk)]
                /\ scan' = [ondisk_extradevs |-> ondisk,
                            pos |-> devt_start(dsb), id |-> 0, err |-> 0]
                /\ devs' = [devs EXCEPT !.rwsem = down_read(@)]
                /\ pc' = Loop1Next(0, devs)
                /\ UNCHANGED rets
    /\ UNCHANGED obj_vars
    /\ UNCHANGED <<data, s_bdev, s_root, s_fs_info, disk, ledger, io, before>>

\* the kind of handle the first loop attaches, super.c:171-189
loop1_handle(s) == IF s.bootstrap = "NULL" THEN "bdev" ELSE "blobfile"

\* one iteration of idr_for_each_entry, super.c:160-194
init_devices_loop1(outcome) ==
    /\ pc = "devs_loop1"
    /\ LET id == scan.id
           dis == DeviceSlot(scan.pos)
           kind == loop1_handle(sbi)
           h1 == [io EXCEPT !.slots = Append(@, scan.pos \div EROFS_DEVT_SLOT_SIZE)]
           h2 == Note(h1, "open", devs.rwsem)
       IN  CASE outcome = "read_fail" ->
                  /\ scan' = [scan EXCEPT !.err = -EIO]
                  /\ io' = SlotFailed(h1)
                  /\ pc' = "devs_loop2"
                  /\ UNCHANGED <<sbi, devs, ledger, rets>>
             [] outcome = "open_fail" ->
                  /\ scan' = [scan EXCEPT !.err = -ENOENT]
                  /\ io' = SlotFailed(h2)
                  /\ devs' = [devs EXCEPT !.rwsem = up_read(@)]
                  /\ InitDevicesReturns(-ENOENT)
                  /\ UNCHANGED <<sbi, ledger>>
             [] OTHER ->
                  /\ devs' = [devs EXCEPT
                        !.tree[id + 1] =
                            [@ EXCEPT ![kind] = "open",
                                      !.blocks = le_to_cpu(dis.blocks),
                                      !.mapped_blkaddr =
                                          le_to_cpu(dis.mapped_blkaddr)]]
                  /\ ledger' = Acq(ledger, Res(kind, id))
                  /\ io' = h2
                  /\ sbi' = [sbi EXCEPT !.total_blocks =
                                            @ + le_to_cpu(dis.blocks)]
                  /\ scan' = [scan EXCEPT !.pos = @ + EROFS_DEVT_SLOT_SIZE,
                                          !.id = id + 1]
                  /\ pc' = Loop1Next(id + 1, devs)
                  /\ UNCHANGED rets
    /\ UNCHANGED obj_vars
    /\ UNCHANGED <<data, s_bdev, s_root, s_fs_info, disk, before>>

\* the blob-directory loop and the exit, super.c:195-239
init_devices_loop2(outcome) ==
    /\ pc = "devs_loop2"
    /\ (outcome = "done") <=> ~(devs.extra_devices < scan.ondisk_extradevs)
    /\ LET id == Len(devs.tree)
           dis == DeviceSlot(scan.pos)
           h1 == [io EXCEPT !.slots = Append(@, scan.pos \div EROFS_DEVT_SLOT_SIZE)]
           unlocked == [devs EXCEPT !.rwsem = up_read(@)]
           added == [devs EXCEPT !.tree = Append(@, dif_zeroed)]
           l1 == Acq(ledger, Res("dif", id))
       IN  CASE outcome = "done" ->
                  /\ devs' = unlocked
                  /\ InitDevicesReturns(loops_done_err(scan.err))
                  /\ scan' = [scan EXCEPT !.err = loops_done_err(scan.err)]
                  /\ UNCHANGED <<sbi, ledger, io>>
             [] outcome = "read_fail" ->
                  /\ devs' = unlocked
                  /\ io' = SlotFailed(h1)
                  /\ InitDevicesReturns(-EIO)
                  /\ UNCHANGED <<sbi, ledger, scan>>
             [] outcome = "nomem" ->
                  /\ devs' = unlocked
                  /\ io' = SlotFailed(h1)
                  /\ scan' = [scan EXCEPT !.err = -ENOMEM]
                  /\ InitDevicesReturns(-ENOMEM)
                  /\ UNCHANGED <<sbi, ledger>>
             [] outcome = "idr_fail" ->
                  /\ devs' = unlocked
                  /\ io' = SlotFailed(Note(h1, "idr_alloc", devs.rwsem))
                  /\ ledger' = Rel(l1, Res("dif", id))
                  /\ scan' = [scan EXCEPT !.err = -ENOMEM]
                  /\ InitDevicesReturns(-ENOMEM)
                  /\ UNCHANGED sbi
             [] outcome = "open_fail" ->
                  /\ devs' = [added EXCEPT !.rwsem = up_read(@)]
                  /\ io' = SlotFailed(Note(Note(h1, "idr_alloc", devs.rwsem),
                                           "open", devs.rwsem))
                  /\ ledger' = l1
                  /\ scan' = [scan EXCEPT !.err = -ENOENT]
                  /\ InitDevicesReturns(-ENOENT)
                  /\ UNCHANGED sbi
             [] OTHER ->
                  /\ devs' = [added EXCEPT
                        !.tree[id + 1] =
                            [@ EXCEPT !.blobfile = "open",
                                      !.blocks = le_to_cpu(dis.blocks),
                                      !.mapped_blkaddr =
                                          le_to_cpu(dis.mapped_blkaddr)],
                        !.extra_devices = @ + 1]
                  /\ io' = Note(Note(Note(h1, "idr_alloc", devs.rwsem),
                                     "open", devs.rwsem),
                                "extra_devices", devs.rwsem)
                  /\ ledger' = Acq(l1, Res("blobfile", id))
                  /\ sbi' = [sbi EXCEPT !.total_blocks =
                                            @ + le_to_cpu(dis.blocks)]
                  /\ scan' = [scan EXCEPT !.pos = @ + EROFS_DEVT_SLOT_SIZE,
                                          !.err = id]   \* idr_alloc's result
                  /\ UNCHANGED <<pc, rets>>
    /\ UNCHANGED obj_vars
    /\ UNCHANGED <<data, s_bdev, s_root, s_fs_info, disk, before>>

----------------------------------------------------------------------------
(* erofs_fill_super, super.c:619-653: root inode, shrinker, managed cache  *)

\* erofs_init_managed_cache, super.c:523-539
erofs_init_managed_cache(s, nomem) ==
    IF ~CONFIG_EROFS_FS_ZIP THEN [err |-> 0, sbi |-> s]
    ELSE IF nomem THEN [err |-> -ENOMEM, sbi |-> s]
    ELSE [err |-> 0, sbi |-> [s EXCEPT !.managed_cache = "inode"]]

fill_super_root(outcome) ==
    /\ pc = "root"
    /\ CASE outcome = "iget_fail" ->
              /\ FillSuperFails(-EIO)
              /\ UNCHANGED <<s_root, sbi, ledger>>
         [] outcome = "not_dir" ->
              /\ FillSuperFails(-EINVAL)
              /\ ledger' = Rel(Acq(ledger, Res("root_inode", 0)),
                               Res("root_inode", 0))
              /\ UNCHANGED <<s_root, sbi>>
         [] outcome = "no_root" ->
              /\ FillSuperFails(-ENOMEM)
              /\ ledger' = Rel(Acq(ledger, Res("root_inode", 0)),
                               Res("root_inode", 0))
              /\ UNCHANGED <<s_root, sbi>>
         [] OTHER ->
              LET r == erofs_init_managed_cache(
                           [sbi EXCEPT !.shrinker = TRUE],
                           outcome = "mcache_fail")
                  l1 == Acq(Acq(ledger, Res("root_inode", 0)),
                            Res("shrinker", 0))
              IN  /\ s_root' = TRUE
                  /\ sbi' = r.sbi
                  /\ ledger' = IF r.sbi.managed_cache # "NULL"
                               THEN Acq(l1, Res("managed_cache", 0)) ELSE l1
                  /\ IF r.err # 0 THEN FillSuperFails(r.err)
                     ELSE /\ pc' = "mounted"
                          /\ rets' = SetRet(rets, "fill_super", 0)
    /\ UNCHANGED obj_vars
    /\ UNCHANGED <<data, s_bdev, s_fs_info, devs, disk, scan, io, before>>

----------------------------------------------------------------------------
(* erofs_remount, super.c:877-898 *)

\* what the error exit restores, super.c:895-897
remount_restore(s, org) == [s EXCEPT !.mount_opt = org.mount_opt]

erofs_remount(options, oom) ==
    /\ pc = "mounted"
    /\ before.n < MaxRemounts
    /\ LET r == erofs_parse_options(
                    [sbi |-> sbi, devs |-> devs, ledger |-> ledger,
                     io |-> io, err |-> 0], options, oom)
       IN  /\ sbi' = IF r.err # 0 THEN remount_restore(r.sbi, sbi) ELSE r.sbi
           /\ devs' = r.devs
           /\ ledger' = r.ledger
           /\ io' = r.io
           /\ rets' = SetRet(rets, "remount", r.err)
    /\ before' = [cfg |-> Config(sbi, devs), n |-> before.n + 1]
    /\ UNCHANGED obj_vars
    /\ UNCHANGED <<pc, data, s_bdev, s_root, s_fs_info, disk, scan>>

----------------------------------------------------------------------------
(* Teardown: erofs_put_super, erofs_release_device_info,                   *)
(* erofs_free_dev_context, erofs_kill_sb                                   *)

\* the shrinker stays registered and the managed cache is kept
erofs_put_super_nothing(st) == st

\* erofs_put_super, super.c:750-761: called when s_root is non-NULL
erofs_put_super(st) ==
    LET l1 == Rel(st.ledger, Res("shrinker", 0))
        l2 == IF CONFIG_EROFS_FS_ZIP
              THEN RelIf(l1, st.sbi.managed_cache # "NULL",
                         Res("managed_cache", 0))
              ELSE l1
    IN  [st EXCEPT !.ledger = l2,
                   !.sbi.shrinker = FALSE,
                   !.sbi.managed_cache =
                       IF CONFIG_EROFS_FS_ZIP THEN "NULL" ELSE @]

\* erofs_release_device_info, super.c:655-666
erofs_release_device_info(l, id, dif) ==
    LET l1 == RelIf(l, dif.bdev # "NULL", Res("bdev", id))
        l2 == RelIf(l1, dif.blobfile # "NULL", Res("blobfile", id))
        l3 == RelIf(l2, dif.path # "NULL", Res("path", id))
    IN  Rel(l3, Res("dif", id))

RECURSIVE idr_for_each_release(_, _, _)
idr_for_each_release(l, tree, id) ==
    IF id >= Len(tree) THEN l
    ELSE idr_for_each_release(
             erofs_release_device_info(l, id, tree[id + 1]), tree, id + 1)

\* erofs_free_dev_context, super.c:668-675
erofs_free_dev_context(l, d) ==
    IF ~d.allocated THEN l
    ELSE Rel(idr_for_each_release(l, d.tree, 0), Res("devs", 0))

\* generic_shutdown_super / kill_block_super, super.c:729-732
shutdown_super(st, root, bdev) ==
    LET a == IF root
             THEN erofs_put_super(
                      [st EXCEPT !.ledger = Rel(@, Res("root_inode", 0))])
             ELSE st
    IN  [a EXCEPT !.ledger = RelIf(@, bdev, Res("s_bdev", 0))]

\* erofs_kill_sb, super.c:723-747, after the generic shutdown
kill_sb_release(l, s, d) ==
    LET l1 == erofs_free_dev_context(l, d)
        l2 == RelIf(l1, s.bootstrap # "NULL", Res("bootstrap", 0))
        l3 == IF s.blob_dir_path # "NULL"
              THEN Rel(RelIf(l2, s.blob_dir # "NULL", Res("blob_dir", 0)),
                       Res("blob_dir_path", 0))
              ELSE l2
        l4 == RelIf(l3, s.bootstrap_path # "NULL", Res("bootstrap_path", 0))
    IN  Rel(l4, Res("sbi", 0))

erofs_kill_sb ==
    /\ pc \in {"failed", "mounted"}
    /\ LET st == shutdown_super([sbi |-> sbi, ledger |-> ledger],
                                s_root, s_bdev)
       IN  ledger' = IF s_fs_info = "NULL" THEN st.ledger
                     ELSE kill_sb_release(st.ledger, st.sbi, devs)
    /\ pc' = "dead"
    /\ s_root' = FALSE
    /\ s_bdev' = FALSE
    /\ s_fs_info' = "NULL"
    /\ sbi' = sbi_zeroed
    /\ devs' = devs_null
    /\ UNCHANGED obj_vars
    /\ UNCHANGED <<data, disk, scan, io, rets, before>>

Next ==
    \/ \E options \in OptionStrings(MountTokens, MaxTokens), nomem \in BOOLEAN :
          erofs_mount(options, nomem)
    \/ \E fail \in {"none", "blocksize", "sbi", "devs"} : fill_super_alloc(fail)
    \/ \E oom \in OomChoices(data) : fill_super_parse(oom)
    \/ \E fail \in {"none", "bootstrap", "blob_dir"} : rafs_v6_fill_super(fail)
    \/ \E img \in Images, nomem \in BOOLEAN, readfail \in BOOLEAN :
          erofs_read_superblock(img, nomem, readfail)
    \/ init_devices_enter
    \/ \E outcome \in {"ok", "read_fail", "open_fail"} :
          init_devices_loop1(outcome)
    \/ \E outcome \in {"ok", "done", "read_fail", "nomem", "idr_fail",
                        "open_fail"} : init_devices_loop2(outcome)
    \/ \E outcome \in {"ok", "iget_fail", "not_dir", "no_root", "mcache_fail"} :
          fill_super_root(outcome)
    \/ erofs_kill_sb

\* super.c:154-157 on its own: erofs_init_devices past the count check
device_id_mask_set ==
    /\ pc = "mask"
    /\ pc' = "mask_done"
    /\ sbi' = IF scan.ondisk_extradevs = 0 THEN sbi
              ELSE [sbi EXCEPT !.device_id_mask =
                                   device_id_mask_of(scan.ondisk_extradevs)]
    /\ UNCHANGED obj_vars
    /\ UNCHANGED <<data, s_bdev, s_root, s_fs_info, devs, disk, scan, ledger,
                   io, rets, before>>

\* a zeroed erofs_sb_info and every on-disk count a le16 can hold
InitMask ==
    /\ pc = "mask"
    /\ data = <<>>
    /\ s_bdev = FALSE
    /\ s_root = FALSE
    /\ s_fs_info = "sbi"
    /\ sbi = sbi_zeroed
    /\ devs = devs_null
    /\ disk = NoDisk
    /\ \E n \in 0..U16_MAX : scan = [scan_init EXCEPT !.ondisk_extradevs = n]
    /\ ledger = EmptyLedger
    /\ io = [slots |-> <<>>, held |-> {}, failed |-> FALSE]
    /\ rets = <<>>
    /\ before = [cfg |-> Config(sbi_zeroed, devs_null), n |-> 0]
    /\ page = page_init
    /\ vi = vi_init
    /\ mod = mod_init

NextMask == device_id_mask_set

\* The device-id mask for every count
SpecMask == InitMask /\ [][NextMask]_vars

\* Blob-directory mounts of images that declare extra devices, without
\* failures
NextBlob ==
    \/ \E options \in BlobMounts : erofs_mount(options, FALSE)
    \/ fill_super_alloc("none")
    \/ fill_super_parse(NoOom)
    \/ rafs_v6_fill_super("none")
    \/ \E img \in {i \in Images :
                       i.f \in {BaseFields(n) : n \in 1..MaxDevs} \cup
                               {[BaseFields(1) EXCEPT !.csum = "good"],
                                [BaseFields(MaxDevs) EXCEPT
                                     !.devt_slotoff = 2]}} :
          erofs_read_superblock(img, FALSE, FALSE)
    \/ init_devices_enter
    \/ init_devices_loop1("ok")
    \/ \E outcome \in {"ok", "done"} : init_devices_loop2(outcome)
    \/ fill_super_root("ok")
    \/ erofs_kill_sb

SpecBlob == Init /\ [][NextBlob]_vars

\* Module load, objects allocated and destroyed while loaded, and unload
SpecModule == Init /\ [][NextModule]_vars

\* Every mount attempt, with every failure the code handles
Spec == Init /\ [][Next]_vars

\* Mounts without failures, then remounts with every option string
NextRemount ==
    \/ \E options \in RemountMounts : erofs_mount(options, FALSE)
    \/ fill_super_alloc("none")
    \/ fill_super_parse(NoOom)
    \/ rafs_v6_fill_super("none")
    \/ \E img \in {i \in Images : i.f \in {BaseFields(0), BaseFields(1)}} :
          erofs_read_superblock(img, FALSE, FALSE)
    \/ init_devices_enter
    \/ init_devices_loop1("ok")
    \/ \E outcome \in {"ok", "done"} : init_devices_loop2(outcome)
    \/ fill_super_root("ok")
    \/ \E options \in OptionStrings(RemountTokens, MaxRemountTokens) :
          \E oom \in RemountOom(options) : erofs_remount(options, oom)
    \/ erofs_kill_sb

SpecRemount == Init /\ [][NextRemount]_vars

\* The option parser on every string over ParseTokens, without allocation
\* failures
NextParse ==
    \/ \E options \in OptionStrings(ParseTokens, MaxParseTokens) :
          erofs_mount(options, FALSE)
    \/ fill_super_alloc("none")
    \/ fill_super_parse(NoOom)
    \/ erofs_kill_sb

SpecParse == Init /\ [][NextParse]_vars

\* A block-device mount reading a checksummed superblock, intact or with
\* one bit inverted
NextFlip ==
    \/ erofs_mount(<<>>, FALSE)
    \/ fill_super_alloc("none")
    \/ fill_super_parse(NoOom)
    \/ rafs_v6_fill_super("none")
    \/ \E img \in FlipImages : erofs_read_superblock(img, FALSE, FALSE)

SpecFlip == Init /\ [][NextFlip]_vars

\* A managed-cache page, the users of its cluster and invalidatepage calls
SpecPage == Init /\ [][NextPage]_vars

\* One inode, its RCU readers, its destruction and the deferred callback
SpecInode == Init /\ [][NextInode]_vars

----------------------------------------------------------------------------
(* Properties                                                              *)

\* what the image generator put on disk, independent of the decoder
OnDiskExtraDevs(f) ==
    IF EROFS_FEATURE_INCOMPAT_DEVICE_TABLE \in f.incompat
    THEN f.extra_devices ELSE 0

\* the first defect a decoder meets in an image built from f
FirstFault(f) ==
    IF ~f.magic_ok THEN "magic"
    ELSE IF f.csum = "bad" THEN "csum"
    ELSE IF f.blkszbits # LOG_BLOCK_SIZE THEN "blksz"
    ELSE IF ~(f.incompat \subseteq EROFS_ALL_FEATURE_INCOMPAT) THEN "feature"
    ELSE IF f.name = "full" THEN "name"
    ELSE "none"

Returned(k) == k \in DOMAIN rets

\* extra device handles (block devices or files) opened so far
OpenedHandles == {r \in DOMAIN ledger : r[1] \in {"bdev", "blobfile"}}

\* the superblock record has been read and decoded
Decoded == disk.blk # <<>>

\* C1: once a slot of the device table has failed (its block could not be
\* read, a configured device could not be opened, or a blob-directory
\* device could not be allocated or opened), erofs_init_devices does not
\* return 0.
C1_SlotFailureFailsResolve ==
    (Returned("init_devices") /\ io.failed) => rets["init_devices"] # 0

\* C2: after erofs_remount returns an error the mount configuration
\* (option toggles, cache strategy, device list and count, bootstrap and
\* blob-directory paths) equals the configuration before the call.
C2_FailedRemountRestoresConfig ==
    (pc = "mounted" /\ Returned("remount") /\ rets["remount"] # 0)
        => Config(sbi, devs) = before.cfg

\* C3: for an image with a valid magic, a valid checksum if present and the
\* supported blkszbits, decoding goes past the compatibility gate only when
\* feature_incompat has no unknown bit; with an unknown bit the decode
\* fails, erofs_init_devices is not entered, no slot is read and no extra
\* device is opened.
C3_UnknownIncompatRefused ==
    (Decoded /\ FirstFault(disk.f) \in {"feature", "name", "none"})
        => /\ (FirstFault(disk.f) = "feature")
                 => /\ pc \in {"failed", "dead"}
                    /\ Returned("read_sb") /\ rets["read_sb"] # 0
                    /\ ~Returned("init_devices")
                    /\ io.slots = <<>>
                    /\ OpenedHandles = {}
           /\ (Returned("init_devices") \/ pc \in {"init_devices",
                   "devs_loop1", "devs_loop2", "root", "mounted"})
                 => disk.f.incompat \subseteq EROFS_ALL_FEATURE_INCOMPAT

C3_Witness ==
    /\ Decoded
    /\ FirstFault(disk.f) = "feature"
    /\ pc = "failed"
    /\ rets["read_sb"] = unsupported_ret

\* bit positions within the checksummed region, counted from the record start
ChecksumFieldBits == {8 * OFF_checksum + j : j \in 0..31}
MagicBits == {8 * OFF_magic + j : j \in 0..31}
ChksumFlagBit == 8 * OFF_feature_compat + EROFS_FEATURE_COMPAT_SB_CHKSUM

\* C4 as stated: a block that decodes with the checksum-present bit set,
\* with any one bit of the checksummed region outside the checksum field
\* inverted (bits of feature_compat included), makes the decode return an
\* error.
C4_AnyFlipFailsDecode ==
    (Decoded /\ disk.flip >= 0 /\ disk.flip \notin ChecksumFieldBits)
        => (pc = "failed" /\ rets["read_sb"] # 0)

\* C4 amended: the intact block decodes; inverting one bit of the
\* checksummed region outside the checksum field and other than the
\* checksum-present flag makes the decode fail (-EINVAL for a bit of the
\* magic, which is compared before verification, -EBADMSG from the
\* verification otherwise); inverting the checksum-present flag turns the
\* verification off and the decode succeeds.
C4_FlipFailsUnlessFlagBit ==
    Decoded =>
        /\ (disk.flip = -1) => pc = "init_devices"
        /\ (disk.flip >= 0 /\ disk.flip \notin ChecksumFieldBits
                           /\ disk.flip # ChksumFlagBit)
              => /\ pc = "failed"
                 /\ rets["read_sb"] = IF disk.flip \in MagicBits
                                      THEN -EINVAL ELSE -EBADMSG
        /\ (disk.flip = ChksumFlagBit)
              => /\ pc = "init_devices"
                 /\ ~erofs_sb_has_sb_chksum(sbi)

C4_Witness ==
    /\ Decoded
    /\ disk.flip >= 8 * SB_SIZE          \* a bit between record and block end
    /\ pc = "failed"
    /\ rets["read_sb"] = -EBADMSG

\* the values the decoder returns for the images whose first defect is one
\* of causes
DecodeErrors(causes) ==
    {read_superblock_decode(sbi_zeroed, i.blk, FALSE).ret :
        i \in {j \in Images : FirstFault(j.f) \in causes}}

Unsupported == {"blksz", "feature"}

OnDiskName == Field(DsbOf(disk), OFF_volume_name, NameLen)

NameBeforeNul(bs) ==
    LET nul == {i \in 1..Len(bs) : bs[i] = 0}
    IN  SubSeq(bs, 1, (CHOOSE i \in nul : \A j \in nul : i <= j) - 1)

PastDecode ==
    \/ pc \in {"init_devices", "devs_loop1", "devs_loop2", "root", "mounted"}
    \/ pc = "failed" /\ Returned("init_devices")

\* C6: when no byte of the on-disk volume_name field is NUL, the decode
\* fails with -EFSCORRUPTED and erofs_init_devices is not entered; when the
\* field holds a NUL and the decode goes on, the stored name is the bytes
\* before the first NUL.
C6_VolumeNameTerminated ==
    (Decoded /\ FirstFault(disk.f) \in {"name", "none"})
        => /\ (\A i \in 1..NameLen : OnDiskName[i] # 0)
                 => /\ pc \in {"failed", "dead"}
                    /\ Returned("read_sb")
                    /\ rets["read_sb"] = -EFSCORRUPTED
                    /\ ~Returned("init_devices")
                    /\ io.slots = <<>>
                    /\ OpenedHandles = {}
           /\ ((\E i \in 1..NameLen : OnDiskName[i] = 0) /\ PastDecode)
                 => sbi.volume_name = NameBeforeNul(OnDiskName)

C6_Witness ==
    /\ Decoded
    /\ \A i \in 1..NameLen : OnDiskName[i] # 0
    /\ pc = "failed"
    /\ rets["read_sb"] = -EFSCORRUPTED

\* the device-table slot of the i-th extra device (i from 1) of the image
SlotOf(f, i) == DeviceSlot((f.devt_slotoff + i - 1) * EROFS_DEVT_SLOT_SIZE)

RECURSIVE SumBlocks(_, _)
SumBlocks(tree, n) ==
    IF n = 0 THEN 0 ELSE tree[n].blocks + SumBlocks(tree, n - 1)

\* the descriptors that come from device= options carry a path
ConfiguredDevices == {i \in 1..Len(devs.tree) : devs.tree[i].path # "NULL"}

ResolveSucceeded ==
    /\ Decoded
    /\ pc # "dead"
    /\ Returned("init_devices")
    /\ rets["init_devices"] = 0

\* C7: when the superblock declares no extra device (device-table feature
\* absent, or extra_devices = 0) and erofs_init_devices returns 0,
\* total_blocks is the block count of the primary device, no device-table
\* slot has been read and no device handle has been opened.
C7_NoExtraDevices ==
    (ResolveSucceeded /\ OnDiskExtraDevs(disk.f) = 0)
        => /\ sbi.total_blocks = sbi.primarydevice_blocks
           /\ sbi.total_blocks = disk.f.blocks
           /\ io.slots = <<>>
           /\ OpenedHandles = {}

C7_Witness ==
    /\ ResolveSucceeded
    /\ disk.f.extra_devices = 1
    /\ disk.f.incompat = {}
    /\ devs.extra_devices = 1
    /\ pc = "root"

\* C8: when the superblock declares N > 0 extra devices, the mount options
\* hold N device= entries and erofs_init_devices returns 0, there are
\* exactly N descriptors, the i-th carrying the blocks and mapped_blkaddr
\* of the i-th slot from devt_slotoff, and total_blocks is the primary
\* block count plus the descriptors' blocks.
C8_MatchingDevicesResolved ==
    (/\ ResolveSucceeded
     /\ OnDiskExtraDevs(disk.f) > 0
     /\ Cardinality(ConfiguredDevices) = OnDiskExtraDevs(disk.f))
        => /\ Len(devs.tree) = OnDiskExtraDevs(disk.f)
           /\ \A i \in 1..Len(devs.tree) :
                 /\ devs.tree[i].blocks = le_to_cpu(SlotOf(disk.f, i).blocks)
                 /\ devs.tree[i].mapped_blkaddr =
                        le_to_cpu(SlotOf(disk.f, i).mapped_blkaddr)
           /\ sbi.total_blocks =
                 disk.f.blocks + SumBlocks(devs.tree, Len(devs.tree))

\* C9: when the on-disk device count differs from the number of configured
\* devices and no blob directory is configured, erofs_init_devices returns
\* -EINVAL, and up to then no device-table slot has been read and no device
\* handle opened.
C9_MismatchRejectedFirst ==
    (/\ Decoded
     /\ s_fs_info = "sbi"
     /\ sbi.blob_dir_path = "NULL"
     /\ OnDiskExtraDevs(disk.f) # devs.extra_devices)
        => /\ pc \in {"init_devices", "failed"}
           /\ Returned("init_devices") => rets["init_devices"] = -EINVAL
           /\ pc = "failed" => Returned("read_sb")
           /\ io.slots = <<>>
           /\ OpenedHandles = {}

C9_Witness ==
    /\ Decoded
    /\ s_fs_info = "sbi"
    /\ sbi.blob_dir_path = "NULL"
    /\ sbi.bootstrap = "NULL"
    /\ OnDiskExtraDevs(disk.f) = 2
    /\ devs.extra_devices = 1
    /\ Returned("init_devices")
    /\ rets["init_devices"] = -EINVAL

\* C10: no resource is released more often than it was acquired or held
\* twice, and once erofs_kill_sb has run, after a failure at any step of
\* erofs_fill_super or after a successful mount that is later unmounted,
\* every acquisition so far (device handles, blob files, bootstrap file,
\* blob-directory reference, descriptors and their paths, erofs_sb_info)
\* has been released.
C10_ReleasedExactlyOnce ==
    /\ \A r \in DOMAIN ledger :
          /\ ledger[r].rel <= ledger[r].acq
          /\ ledger[r].acq - ledger[r].rel <= 1
    /\ pc = "dead" => \A r \in DOMAIN ledger : ledger[r].acq = ledger[r].rel

\* C11: every insertion of a descriptor into the device table (idr_alloc,
\* in the option parser and in the blob-directory loop) and every open of a
\* device handle by erofs_init_devices ran with devs->rwsem held for
\* writing.
C11_TableChangesAndOpensExclusive ==
    \A h \in io.held : h[1] \in {"idr_alloc", "open"} => h[2] = "write"

\* the option grammar, as the mount options are documented
ToggleKeys == {"user_xattr", "nouser_xattr", "acl", "noacl"}
ValueKeys == {"cache_strategy", "device", "bootstrap_path", "blob_dir_path"}
Strategies == {"disabled", "readahead", "readaround"}

\* an unknown key, or a value-taking key without a value
BadToken(p) ==
    /\ ~(p.key = "" /\ ~p.eq)
    /\ \/ p.key \notin ToggleKeys \cup ValueKeys
       \/ p.key \in ToggleKeys /\ p.eq
       \/ p.key \in ValueKeys /\ (~p.eq \/ p.val = "")

\* cache_strategy=<v> with v not a strategy
BadStrategy(p) ==
    p.key = "cache_strategy" /\ p.eq /\ p.val # "" /\ p.val \notin Strategies

\* index of the first token the parser must refuse, 0 when there is none
FirstRefused(options) ==
    LET R == {i \in 1..Len(options) :
                 BadToken(options[i]) \/ BadStrategy(options[i])}
    IN  IF R = {} THEN 0 ELSE CHOOSE i \in R : \A j \in R : i <= j

\* C12: when the first token to refuse is an unknown key or a value-taking
\* key without value, the parse returns -EINVAL and the configuration is
\* the one before the parse, whatever valid tokens came first; a string of
\* valid and empty tokens parses without error.
C12_FailedParseAppliesNothing ==
    [][pc = "parse" =>
          LET b == FirstRefused(data)
          IN  /\ (b = 0) => rets'["parse"] = 0
              /\ (b # 0 /\ BadToken(data[b]))
                    => /\ rets'["parse"] = -EINVAL
                       /\ Config(sbi', devs') = Config(sbi, devs)]_vars

StrategyOf(v) ==
    CASE v = "disabled" -> "DISABLED"
      [] v = "readahead" -> "READAHEAD"
      [] OTHER -> "READAROUND"

\* the strategy named by the last cache_strategy token among the first n
LastStrategy(options, n) ==
    LET C == {i \in 1..n : options[i].key = "cache_strategy"
                             /\ options[i].val \in Strategies}
    IN  IF C = {} THEN "READAROUND"
        ELSE StrategyOf(options[CHOOSE i \in C : \A j \in C : j <= i].val)

\* C13: with CONFIG_EROFS_FS_ZIP, a cache_strategy token is accepted exactly
\* when its value is disabled, readahead or readaround; after the parse the
\* recorded strategy is that of the last accepted token, readaround when
\* there is none, and a token with another value returns -EINVAL and
\* leaves the recorded strategy as it was.
C13_CacheStrategyRecorded ==
    [][(pc = "parse" /\ CONFIG_EROFS_FS_ZIP) =>
          LET b == FirstRefused(data)
              n == IF b = 0 THEN Len(data) ELSE b - 1
          IN  /\ sbi'.cache_strategy = LastStrategy(data, n)
              /\ (b = 0) => rets'["parse"] = 0
              /\ (b # 0 /\ BadStrategy(data[b])) => rets'["parse"] = -EINVAL]_vars

C13_Witness ==
    /\ pc = "failed"
    /\ Returned("parse")
    /\ rets["parse"] = -EINVAL
    /\ sbi.cache_strategy = "DISABLED"

\* C14: after erofs_remount has returned, with or without error, the device
\* table (descriptor paths and extra_devices), the bootstrap path and the
\* blob-directory path are those from before the call.
C14_RemountKeepsDevicesAndPaths ==
    (pc = "mounted" /\ Returned("remount"))
        => LET now == Config(sbi, devs)
           IN  /\ now.paths = before.cfg.paths
               /\ now.extra_devices = before.cfg.extra_devices
               /\ now.bootstrap_path = before.cfg.bootstrap_path
               /\ now.blob_dir_path = before.cfg.blob_dir_path

\* the option string holds bootstrap_path=<value> or blob_dir_path=<value>
HasRafsToken(options) ==
    \E i \in 1..Len(options) :
        /\ options[i].key \in {"bootstrap_path", "blob_dir_path"}
        /\ options[i].eq
        /\ options[i].val # ""

\* C15: erofs_mount hands the option string on as it got it and leaves the
\* mount configuration alone, and mounts without a block device exactly
\* when the string holds a bootstrap_path=<value> or blob_dir_path=<value>
\* token; otherwise it mounts the block device.
C15_PreScanSelectsMode ==
    [][pc = "start" =>
          /\ s_bdev' = ~HasRafsToken(data')
          /\ (rets'["is_rafs_v6"] = 1) <=> HasRafsToken(data')
          /\ sbi' = sbi /\ devs' = devs /\ s_fs_info' = s_fs_info]_vars

\* C16: an erofs_managed_cache_invalidatepage call over the whole page
\* (offset 0 and offset + length equal to the page size) returns only after
\* erofs_managed_cache_releasepage reported the page released, and a busy
\* result is always followed by cond_resched before the next attempt; a
\* call over part of the page makes no release attempt and returns with the
\* page attached to its cluster exactly as it was on entry.
C16_WholePageInvalidateReleases ==
    LET c == page.call
    IN  /\ c.pc = "returned" =>
              IF c.offset = 0 /\ c.offset + c.length = PAGE_SIZE
              THEN c.tried /\ c.ret = 1
              ELSE ~c.tried /\ page.Private = c.entry
        /\ c.pc = "release" => ~c.owed
        /\ c.pc = "resched" => c.tried /\ c.ret = 0

\* a whole-page call has returned after a busy attempt, a yield and a
\* release
C16_Witness ==
    /\ page.call.pc = "returned"
    /\ page.call.offset = 0 /\ page.call.length = PAGE_SIZE
    /\ page.call.entry /\ page.call.busied
    /\ page.call.ret = 1 /\ ~page.Private

\* C17: while a reader that reached the inode before erofs_destroy_inode
\* is still inside its read-side section, neither the fast-symlink buffer,
\* nor the shared-xattr list, nor the inode itself has been freed; nothing
\* is freed before the callback runs, and once it has run the inode and
\* each payload buffer the inode owned have been freed exactly once.
C17_FreedAfterGracePeriodOnce ==
    /\ \A r \in Readers :
          vi.rd[r] = "ref" => \A o \in Payload : vi[o] # "freed"
    /\ \A o \in Payload : vi.frees[o] <= 1
    /\ vi.state # "freed" => \A o \in Payload : vi.frees[o] = 0
    /\ vi.state = "freed" =>
          /\ vi.frees["vi"] = 1
          /\ vi.frees["i_link"] = (IF vi.fast_symlink THEN 1 ELSE 0)
          /\ \A o \in Payload : vi[o] # "alloc"

\* a fast symlink with shared xattrs was destroyed under a reader holding
\* it, and has been freed since
C17_Witness ==
    /\ vi.state = "freed"
    /\ vi.raced
    /\ vi.fast_symlink
    /\ vi.frees = [o \in Payload |-> 1]

\* acquisitions and releases of a resource so far
Count(r) ==
    IF r \in DOMAIN ledger THEN ledger[r]
    ELSE [acq |-> 0, rel |-> 0, late |-> FALSE]

\* C18: within one mount the shrinker is registered at most once and the
\* managed cache set up at most once; once erofs_kill_sb has run, a
\* registered shrinker has been deregistered exactly once and a managed
\* cache that was set up has been dropped, both before the erofs_sb_info
\* was freed, whether the mount had succeeded or erofs_fill_super had
\* failed after the registration; erofs_put_super leaves the managed-cache
\* handle NULL; a mount that failed before the registration is never
\* deregistered.
C18_ShrinkerAndCachePaired ==
    LET sh == Count(Res("shrinker", 0))
        mc == Count(Res("managed_cache", 0))
    IN  /\ sh.acq <= 1 /\ mc.acq <= 1
        /\ sh.rel <= sh.acq /\ mc.rel <= mc.acq
        /\ mc.acq <= sh.acq
        /\ pc # "dead" => sh.rel = 0 /\ mc.rel = 0
        /\ pc = "dead" => /\ sh.rel = sh.acq /\ ~sh.late
                          /\ mc.rel = mc.acq /\ ~mc.late
        /\ (pc \in {"failed", "mounted"} /\ s_root) =>
              LET st == erofs_put_super([sbi |-> sbi, ledger |-> ledger])
              IN  st.sbi.managed_cache = "NULL" /\ ~st.sbi.shrinker

\* erofs_init_managed_cache failed after the shrinker was registered, and
\* erofs_kill_sb has deregistered it
C18_Witness ==
    /\ pc = "dead"
    /\ Returned("fill_super") /\ rets["fill_super"] = -ENOMEM
    /\ Count(Res("shrinker", 0)).acq = 1
    /\ Count(Res("shrinker", 0)).rel = 1
    /\ Count(Res("managed_cache", 0)).acq = 0

\* the descriptors of the device table
Descriptors == {devs.tree[i] : i \in 1..Len(devs.tree)}

\* C19: no descriptor of the device table holds both a block-device handle
\* and a file handle; when bootstrap_path or blob_dir_path is configured
\* every opened descriptor holds a file handle; when the super block sits
\* on a block device every opened descriptor holds a block-device handle.
C19_HandleKindFollowsMode ==
    \A dif \in Descriptors :
        /\ ~(dif.bdev # "NULL" /\ dif.blobfile # "NULL")
        /\ (sbi.bootstrap_path # "NULL" \/ sbi.blob_dir_path # "NULL")
              => dif.bdev = "NULL"
        /\ s_bdev => dif.blobfile = "NULL"

IsPow2(x) == \E k \in 0..16 : x = Pow2(k)

\* the largest value of a 32-bit int
INT_MAX == Pow2(30) - 1 + Pow2(30)

\* C20: for an on-disk count N of 1..65535 the mask set by erofs_init_devices
\* is one less than a power of two, at least N, with (mask + 1) / 2 at most
\* N, and neither N + 1 nor the rounded value nor the mask leaves its
\* integer width; for N = 0 the mask stays 0.
C20_MaskCoversCount ==
    pc = "mask_done" =>
        LET N == scan.ondisk_extradevs
            mask == sbi.device_id_mask
        IN  IF N = 0 THEN mask = 0
            ELSE /\ IsPow2(mask + 1)
                 /\ mask >= N
                 /\ (mask + 1) \div 2 <= N
                 /\ N + 1 <= INT_MAX
                 /\ mask <= U16_MAX

\* the mask of the largest count
C20_Witness ==
    /\ pc = "mask_done"
    /\ scan.ondisk_extradevs = U16_MAX
    /\ sbi.device_id_mask = U16_MAX

Steps == <<"icache", "shrinker", "zip", "fs">>

SetUp == [icache |-> "kmem_cache_create", shrinker |-> "erofs_init_shrinker",
          zip |-> "z_erofs_init_zip_subsystem", fs |-> "register_filesystem"]

TearDown == [icache |-> "kmem_cache_destroy", shrinker |-> "erofs_exit_shrinker",
             zip |-> "z_erofs_exit_zip_subsystem",
             fs |-> "unregister_filesystem"]

\* position in Steps of the step that failed, 5 when none did
FailedAt == IF mod.failed = "none" THEN 5
            ELSE CHOOSE k \in 1..4 : Steps[k] = mod.failed

\* the calls of the log that set up or tear down a step that was set up
Effective(log) ==
    SelectSeq(log, LAMBDA c : c # "rcu_barrier" /\
                 ~(mod.failed # "none" /\ c = SetUp[mod.failed]))

\* C21: erofs_module_init sets up the inode pool, the shrinker, the
\* decompression subsystem and the filesystem registration in that order;
\* when step k fails it returns the error after tearing down the steps
\* before k, and only those, in reverse order.  erofs_module_exit
\* unregisters the filesystem first and destroys the pool last, and the
\* pool is never destroyed while an RCU callback of an inode is pending.
C21_ModuleSetUpAndTornDownInOrder ==
    LET k == FailedAt
        ups == [i \in 1..(k - 1) |-> SetUp[Steps[i]]]
        downs == [i \in 1..(k - 1) |-> TearDown[Steps[k - i]]]
    IN  /\ mod.state = "live" => mod.ret = 0 /\ mod.log = ups /\ k = 5
        /\ mod.state = "failed" =>
              /\ k <= 4
              /\ mod.ret # 0
              /\ mod.ret = (IF k = 1 THEN -ENOMEM ELSE mod.callee)
              /\ Effective(mod.log) = ups \o downs
        /\ mod.state = "gone" =>
              /\ Effective(mod.log) = ups \o downs
              /\ mod.log[5] = "unregister_filesystem"
              /\ mod.log[Len(mod.log)] = "kmem_cache_destroy"
              /\ mod.log[Len(mod.log) - 1] = "rcu_barrier"
        /\ mod.pool = "destroyed" => vi.state # "queued"
        /\ vi.state \in {"live", "queued"} => mod.pool = "live"

\* the module was unloaded after an inode was destroyed under a reader,
\* and the inode's callback ran before the pool went
C21_Witness ==
    /\ mod.state = "gone"
    /\ mod.pool = "destroyed"
    /\ vi.state = "freed"
    /\ vi.raced

\* the device-table slots of the image, counted from devt_slotoff
SlotsRead == {io.slots[i] - disk.f.devt_slotoff : i \in 1..Len(io.slots)}

\* C22: with a blob directory configured and N > 0 extra devices on disk,
\* whatever the number of device= options, once erofs_init_devices has
\* returned 0 the device table holds exactly N descriptors, only slots
\* 0..N-1 of the on-disk table were read, extra_devices is N, and every id
\* in the table is at most device_id_mask.
C22_BlobResolveLeavesOnDiskCount ==
    (/\ ResolveSucceeded
     /\ sbi.blob_dir_path # "NULL"
     /\ OnDiskExtraDevs(disk.f) > 0)
        => LET N == OnDiskExtraDevs(disk.f)
           IN  /\ Len(devs.tree) = N
               /\ SlotsRead \subseteq 0..(N - 1)
               /\ devs.extra_devices = N
               /\ \A id \in 0..(Len(devs.tree) - 1) : id <= sbi.device_id_mask

\* C23: devs->rwsem is held, in read mode and once, only between the
\* down_read of erofs_init_devices and its return; at every other point,
\* so after every return of erofs_init_devices and of erofs_parse_options,
\* it is free, and it is never released in a mode that is not held.
C23_LockFreeOnReturn ==
    /\ ~devs.rwsem.misuse
    /\ ~devs.rwsem.writer
    /\ devs.rwsem.readers = (IF pc \in {"devs_loop1", "devs_loop2"} THEN 1 ELSE 0)

\* erofs_init_devices left through err_out after an open failed under the
\* read lock, with a device= option parsed under the write lock before
C23_Witness ==
    /\ pc = "failed"
    /\ Returned("init_devices") /\ rets["init_devices"] = -ENOENT
    /\ <<"open", "read">> \in io.held
    /\ <<"idr_alloc", "write">> \in io.held
    /\ LockMode(devs.rwsem) = "none"

====
